---- MODULE Spec2Model ----
(***************************************************************************)
(* hstorage: a schema-validated, path-addressable value store persisted    *)
(* in a synchronous key-value medium (src/src/Store.ts), its Type system   *)
(* (src/unnamed/part_000, the module "./types") and its path utilities     *)
(* (src/test/index.js lines 103-217, the module "./utils").                *)
(*                                                                         *)
(* JavaScript values are tagged records.  A number is kept as a count of   *)
(* halves (half = 3 is 1.5) so that Number's integer option is observable. *)
(* An object keeps its own keys in insertion order (what Object.keys,      *)
(* Object.entries and JSON.stringify enumerate); an Array is an object     *)
(* with array = TRUE, a length and index keys.  A JSON text is a sequence  *)
(* of tokens, so that two texts of one value can differ.                   *)
(***************************************************************************)
EXTENDS Integers, Sequences, FiniteSets, TLC

(***************************************************************************)
(* Bounds of the model.                                                    *)
(***************************************************************************)
\* Largest number of operations (load, set, reset, save, timer firings,
\* writes of another agent) in one behaviour of one Store.
MaxSteps == 3

\* Largest number of set calls and timer firings in one behaviour of two
\* Stores over one key.
MaxStepsTwo == 4

(***************************************************************************)
(* JavaScript values.                                                      *)
(***************************************************************************)
Undefined == [k |-> "undefined"]

Null == [k |-> "null"]

Bool(b) == [k |-> "boolean", b |-> b]

\* The number h/2.
Num(h) == [k |-> "number", half |-> h]

Str(s) == [k |-> "string", s |-> s]

\* A reference to the default-value object owned by the Dictionary node of
\* the schema at path `node`: the one object the language would share.
Ref(node) == [k |-> "ref", node |-> node]

NoProps == [q \in {} |-> Undefined]

\* {} and [] literals.
NewObject == [k |-> "object", array |-> FALSE, len |-> 0, keys |-> <<>>, at |-> NoProps]

NewArray == [k |-> "object", array |-> TRUE, len |-> 0, keys |-> <<>>, at |-> NoProps]

\* The canonical numeric strings that are array indices, in order.
IndexKeys == <<"0", "1", "2">>

IsIndex(key) == \E i \in 1..Len(IndexKeys) : IndexKeys[i] = key

IndexOf(key) == CHOOSE i \in 1..Len(IndexKeys) : IndexKeys[i] = key

\* typeof value === 'object' && value (a non-null object or array).
IsObject(v) == v.k = "object"

IsArray(v) == v.k = "object" /\ v.array

HasOwn(o, key) == key \in DOMAIN o.at

\* o[key] on an object or array (prototype properties are not modelled).
GetProp(o, key) ==
    IF HasOwn(o, key) THEN o.at[key]
    ELSE IF o.array /\ key = "length" THEN Num(2 * o.len)
    ELSE Undefined

\* Own keys in enumeration order after adding `key`: index keys ascending
\* first, then the others in insertion order.
KeysWith(o, key) ==
    IF HasOwn(o, key) THEN o.keys
    ELSE IF IsIndex(key)
    THEN LET before == SelectSeq(o.keys, LAMBDA q : IsIndex(q) /\ IndexOf(q) < IndexOf(key))
             after == SelectSeq(o.keys, LAMBDA q : ~(IsIndex(q) /\ IndexOf(q) < IndexOf(key)))
         IN  before \o <<key>> \o after
    ELSE Append(o.keys, key)

\* o[key] = val.
PutProp(o, key, val) ==
    [o EXCEPT !.keys = KeysWith(o, key),
              !.at = [q \in DOMAIN o.at \cup {key} |-> IF q = key THEN val ELSE o.at[q]],
              !.len = IF o.array /\ IsIndex(key) /\ IndexOf(key) > o.len
                      THEN IndexOf(key) ELSE o.len]

\* delete o[key].
DelProp(o, key) ==
    [o EXCEPT !.keys = SelectSeq(o.keys, LAMBDA q : q # key),
              !.at = [q \in DOMAIN o.at \ {key} |-> o.at[q]]]

RECURSIVE ObjectOf(_, _)
\* The object literal with the given keys, in order, and values.
ObjectOf(keys, vals) ==
    IF keys = <<>> THEN NewObject
    ELSE PutProp(ObjectOf(SubSeq(keys, 1, Len(keys) - 1), SubSeq(vals, 1, Len(vals) - 1)),
                 keys[Len(keys)], vals[Len(vals)])

RECURSIVE ArrayOf(_)
\* The array literal with the given elements.
ArrayOf(elems) ==
    IF elems = <<>> THEN NewArray
    ELSE PutProp(ArrayOf(SubSeq(elems, 1, Len(elems) - 1)),
                 IndexKeys[Len(elems)], elems[Len(elems)])

RECURSIVE DeepEqual(_, _)
\* Structural equality that ignores the order of keys.
DeepEqual(a, b) ==
    IF IsObject(a) /\ IsObject(b)
    THEN /\ a.array = b.array
         /\ a.len = b.len
         /\ DOMAIN a.at = DOMAIN b.at
         /\ \A q \in DOMAIN a.at : DeepEqual(a.at[q], b.at[q])
    ELSE a = b

(***************************************************************************)
(* JSON texts: sequences of tokens.                                        *)
(***************************************************************************)
Punct(c) == [p |-> c]

Space == [ws |-> " "]

Word(w) == [lit |-> w]

\* A number literal of the number h/2; form "canonical" is the spelling
\* JSON.stringify produces (1), "padded" another spelling (1.0).
NumTok(h, form) == [num |-> h, form |-> form]

StrTok(s) == [str |-> s]

\* A JavaScript string holding the given tokens.
Text(toks) == [k |-> "text", toks |-> toks]

IsText(src) == src.k = "text"

RECURSIVE Toks(_)
RECURSIVE MemberToks(_, _, _)
RECURSIVE ElementToks(_, _)
\* The members of an object: a property whose value is undefined is skipped.
MemberToks(o, i, first) ==
    IF i > Len(o.keys) THEN <<>>
    ELSE LET key == o.keys[i]
             val == o.at[key]
         IN  IF val.k = "undefined" THEN MemberToks(o, i + 1, first)
             ELSE (IF first THEN <<>> ELSE <<Punct(",")>>)
                  \o <<StrTok(key), Punct(":")>> \o Toks(val)
                  \o MemberToks(o, i + 1, FALSE)

\* The elements 0 .. len-1 of an array: a hole or undefined is written null.
ElementToks(o, i) ==
    IF i > o.len THEN <<>>
    ELSE LET val == GetProp(o, IndexKeys[i])
         IN  (IF i = 1 THEN <<>> ELSE <<Punct(",")>>)
             \o (IF val.k = "undefined" THEN <<Word("null")>> ELSE Toks(val))
             \o ElementToks(o, i + 1)

Toks(v) ==
    CASE v.k = "null" -> <<Word("null")>>
      [] v.k = "boolean" -> <<Word(IF v.b THEN "true" ELSE "false")>>
      [] v.k = "number" -> <<NumTok(v.half, "canonical")>>
      [] v.k = "string" -> <<StrTok(v.s)>>
      [] v.k = "object" /\ v.array -> <<Punct("[")>> \o ElementToks(v, 1) \o <<Punct("]")>>
      [] v.k = "object" /\ ~v.array -> <<Punct("{")>> \o MemberToks(v, 1, TRUE) \o <<Punct("}")>>

\* JSON.stringify(value): undefined for undefined, else the canonical text.
JSONStringify(v) == IF v.k = "undefined" THEN Undefined ELSE Text(Toks(v))

ParseFail == [ok |-> FALSE]

IsPunct(t, i, c) == i <= Len(t) /\ t[i] = Punct(c)

RECURSIVE SkipWs(_, _)
SkipWs(t, i) == IF i <= Len(t) /\ t[i] = Space THEN SkipWs(t, i + 1) ELSE i

RECURSIVE ParseValue(_, _)
RECURSIVE ParseElements(_, _, _)
RECURSIVE ParseMembers(_, _, _)
\* After "[" or ",": one element, then "," or "]".
ParseElements(t, i, acc) ==
    LET r == ParseValue(t, i)
    IN  IF ~r.ok THEN ParseFail
        ELSE LET arr == PutProp(acc, IndexKeys[acc.len + 1], r.v)
                 j == SkipWs(t, r.next)
             IN  IF IsPunct(t, j, "]") THEN [ok |-> TRUE, v |-> arr, next |-> j + 1]
                 ELSE IF IsPunct(t, j, ",") THEN ParseElements(t, j + 1, arr)
                 ELSE ParseFail

\* After "{" or ",": "key" ":" value, then "," or "}".
ParseMembers(t, i, acc) ==
    LET j == SkipWs(t, i)
    IN  IF ~(j <= Len(t) /\ "str" \in DOMAIN t[j]) THEN ParseFail
        ELSE LET c == SkipWs(t, j + 1)
             IN  IF ~IsPunct(t, c, ":") THEN ParseFail
                 ELSE LET r == ParseValue(t, c + 1)
                      IN  IF ~r.ok THEN ParseFail
                          ELSE LET obj == PutProp(acc, t[j].str, r.v)
                                   e == SkipWs(t, r.next)
                               IN  IF IsPunct(t, e, "}")
                                   THEN [ok |-> TRUE, v |-> obj, next |-> e + 1]
                                   ELSE IF IsPunct(t, e, ",")
                                   THEN ParseMembers(t, e + 1, obj)
                                   ELSE ParseFail

ParseValue(t, i) ==
    LET j == SkipWs(t, i)
    IN  IF j > Len(t) THEN ParseFail
        ELSE LET tok == t[j]
             IN  CASE "lit" \in DOMAIN tok ->
                        ( CASE tok.lit = "null" -> [ok |-> TRUE, v |-> Null, next |-> j + 1]
                            [] tok.lit = "true" -> [ok |-> TRUE, v |-> Bool(TRUE), next |-> j + 1]
                            [] tok.lit = "false" -> [ok |-> TRUE, v |-> Bool(FALSE), next |-> j + 1]
                            [] OTHER -> ParseFail )
                   [] "num" \in DOMAIN tok -> [ok |-> TRUE, v |-> Num(tok.num), next |-> j + 1]
                   [] "str" \in DOMAIN tok -> [ok |-> TRUE, v |-> Str(tok.str), next |-> j + 1]
                   [] tok = Punct("[") ->
                        LET e == SkipWs(t, j + 1)
                        IN  IF IsPunct(t, e, "]")
                            THEN [ok |-> TRUE, v |-> NewArray, next |-> e + 1]
                            ELSE ParseElements(t, j + 1, NewArray)
                   [] tok = Punct("{") ->
                        LET e == SkipWs(t, j + 1)
                        IN  IF IsPunct(t, e, "}")
                            THEN [ok |-> TRUE, v |-> NewObject, next |-> e + 1]
                            ELSE ParseMembers(t, j + 1, NewObject)
                   [] OTHER -> ParseFail

\* JSON.parse(text): [ok, v], ok = FALSE standing for the SyntaxError thrown.
JSONParse(src) ==
    LET r == ParseValue(src.toks, 1)
    IN  IF r.ok /\ SkipWs(src.toks, r.next) = Len(src.toks) + 1
        THEN [ok |-> TRUE, v |-> r.v]
        ELSE ParseFail

(***************************************************************************)
(* Types (the module "./types" and its helpers in "./utils").  A Type is   *)
(* a record: its variant tag, its options and its defaultValue.  A         *)
(* constructor yields [ok |-> TRUE, type |-> t] or, when it throws,        *)
(* [ok |-> FALSE, error |-> message].                                      *)
(***************************************************************************)
\* Infinity and -Infinity, and a finite limit n.
Infinity == [inf |-> "+"]

MinusInfinity == [inf |-> "-"]

Finite(n) == [fin |-> n]

\* x >= limit and x <= limit.
AtLeast(n, limit) == IF "inf" \in DOMAIN limit THEN limit.inf = "-" ELSE n >= limit.fin

AtMost(n, limit) == IF "inf" \in DOMAIN limit THEN limit.inf = "+" ELSE n <= limit.fin

\* pattern: null, or a RegExp given by the strings it matches.
NoPattern == [none |-> TRUE]

Pattern(matching) == [matching |-> matching]

\* Dictionary's types: undefined, or the ordered field mapping.
NoTypes == [none |-> TRUE]

Types(keys, types) == [keys |-> keys, at |-> [q \in {keys[i] : i \in 1..Len(keys)} |->
                          types[CHOOSE i \in 1..Len(keys) : keys[i] = q]]]

HasTypes(t) == t.tag = "Dictionary" /\ "keys" \in DOMAIN t.types

\* key in types.
InTypes(types, key) == key \in DOMAIN types.at

\* Object.assign(this, defaults, options): an option given wins.
Opt(options, name, default) == IF name \in DOMAIN options THEN options[name] ELSE default

NoOptions == [q \in {} |-> Undefined]

Thrown(message) == [ok |-> FALSE, error |-> message]

Built(t) == [ok |-> TRUE, type |-> t]

\* _createValidatingResult(valid, paths).
CreateValidatingResult(valid, paths) ==
    IF valid THEN [valid |-> TRUE]
    ELSE [valid |-> FALSE, paths |-> paths]

\* paths || [[]] when the paths argument is omitted.
RootPaths == << <<>> >>

\* A validating result, being an object, is truthy.
ResultTruthy(result) == TRUE

RECURSIVE Validate(_, _)
RECURSIVE FieldPathsOfFirst(_, _, _)
\* A second loop that stops at the first field that fails: C11 must not hold
\* of it.
FieldPathsOfFirst(t, v, i) ==
    IF i > Len(t.types.keys) THEN <<>>
    ELSE IF Validate(t.types.at[t.types.keys[i]], GetProp(v, t.types.keys[i])).valid
    THEN FieldPathsOfFirst(t, v, i + 1)
    ELSE [j \in 1..Len(Validate(t.types.at[t.types.keys[i]], GetProp(v, t.types.keys[i])).paths) |->
             <<t.types.keys[i]>> \o Validate(t.types.at[t.types.keys[i]], GetProp(v, t.types.keys[i])).paths[j]]

RECURSIVE FieldPaths(_, _, _)
\* Dictionary.validate, second loop: every declared field validated against
\* value[key], its failing paths prefixed by the key.
FieldPaths(t, v, i) ==
    IF i > Len(t.types.keys) THEN <<>>
    ELSE LET key == t.types.keys[i]
             result == Validate(t.types.at[key], GetProp(v, key))
         IN  (IF result.valid THEN <<>>
              ELSE [j \in 1..Len(result.paths) |-> <<key>> \o result.paths[j]])
             \o FieldPaths(t, v, i + 1)

\* Dictionary.validate, first loop: own keys that the mapping does not declare.
UnknownKeyPaths(t, v) ==
    LET unknown == SelectSeq(v.keys, LAMBDA key : ~InTypes(t.types, key))
    IN  [j \in 1..Len(unknown) |-> <<unknown[j]>>]

\* type.validate(value) of every variant.
Validate(t, v) ==
    CASE t.tag = "Any" -> [valid |-> TRUE]
      [] t.tag = "Boolean" -> CreateValidatingResult(v.k = "boolean", RootPaths)
      [] t.tag = "String" ->
            CreateValidatingResult(
                /\ v.k = "string"
                /\ AtLeast(Len(v.s), t.minLength)
                /\ AtMost(Len(v.s), t.maxLength)
                /\ ("none" \in DOMAIN t.pattern \/ v.s \in t.pattern.matching),
                RootPaths)
      [] t.tag = "Number" ->
            CreateValidatingResult(
                /\ v.k = "number"
                /\ AtLeast(v.half, t.min)
                /\ AtMost(v.half, t.max)
                /\ (~t.integer \/ v.half % 2 = 0),
                RootPaths)
      [] t.tag = "Nullable" ->
            \* value === null ? this.null : (value === this.undefined && this.undefined)
            CreateValidatingResult(
                IF v.k = "null" THEN t.null
                ELSE v = Bool(t.undefined) /\ t.undefined,
                RootPaths)
      [] t.tag = "Dictionary" ->
            IF IsObject(v)
            THEN IF HasTypes(t)
                 THEN LET paths == UnknownKeyPaths(t, v) \o FieldPaths(t, v, 1)
                      IN  CreateValidatingResult(paths = <<>>, paths)
                 ELSE CreateValidatingResult(TRUE, RootPaths)
            ELSE CreateValidatingResult(FALSE, RootPaths)
      [] t.tag = "List" ->
            \* value.every(element => type.validate(element))
            CreateValidatingResult(
                /\ IsArray(v)
                /\ \A i \in 1..v.len :
                      ~HasOwn(v, IndexKeys[i]) \/ ResultTruthy(Validate(t.type, v.at[IndexKeys[i]])),
                RootPaths)
      [] t.tag = "Union" ->
            CreateValidatingResult(
                \E i \in 1..Len(t.types) : Validate(t.types[i], v).valid,
                RootPaths)

\* _validateDefaultValue(type), as the last step of a constructor.
ValidateDefaultValue(t) ==
    IF Validate(t, t.defaultValue).valid THEN Built(t) ELSE Thrown("Invalid default value")

\* new Any(defaultValue).
NewAny(defaultValue) == Built([tag |-> "Any", defaultValue |-> defaultValue])

\* new Boolean(defaultValue = false).
NewBoolean(defaultValue) ==
    ValidateDefaultValue([tag |-> "Boolean",
        defaultValue |-> IF defaultValue = Undefined THEN Bool(FALSE) ELSE defaultValue])

\* new String(options).
NewString(options) ==
    ValidateDefaultValue([tag |-> "String",
        defaultValue |-> Opt(options, "defaultValue", Str("")),
        minLength |-> Opt(options, "minLength", Finite(0)),
        maxLength |-> Opt(options, "maxLength", Infinity),
        pattern |-> Opt(options, "pattern", NoPattern)])

\* new Number(options); min and max count halves, like the values.
NewNumber(options) ==
    ValidateDefaultValue([tag |-> "Number",
        defaultValue |-> Opt(options, "defaultValue", Num(0)),
        min |-> Opt(options, "min", MinusInfinity),
        max |-> Opt(options, "max", Infinity),
        integer |-> Opt(options, "integer", FALSE)])

\* new Nullable(options).
NewNullable(options) ==
    LET t == [tag |-> "Nullable",
              defaultValue |-> Opt(options, "defaultValue", Null),
              null |-> Opt(options, "null", TRUE),
              undefined |-> Opt(options, "undefined", TRUE)]
    IN  IF ~(t.null \/ t.undefined) THEN Thrown("Invalid options")
        ELSE IF "defaultValue" \in DOMAIN options THEN ValidateDefaultValue(t)
        ELSE IF ~t.null THEN Built([t EXCEPT !.defaultValue = Undefined])
        ELSE Built(t)

\* _createDefaultDictionary(types): every field's defaultValue, in order.
CreateDefaultDictionary(types) ==
    ObjectOf(types.keys, [i \in 1..Len(types.keys) |-> types.at[types.keys[i]].defaultValue])

\* new Dictionary(types).
NewDictionary(types) ==
    Built([tag |-> "Dictionary", types |-> types,
           defaultValue |-> IF "keys" \in DOMAIN types
                            THEN CreateDefaultDictionary(types) ELSE NewObject])

\* new List(options).
NewList(options) ==
    ValidateDefaultValue([tag |-> "List",
        defaultValue |-> Opt(options, "defaultValue", NewArray),
        type |-> Opt(options, "type", NewAny(Undefined).type)])

\* new Union(options).
NewUnion(options) ==
    ValidateDefaultValue([tag |-> "Union",
        types |-> options.types,
        defaultValue |-> IF "defaultValue" \in DOMAIN options THEN options.defaultValue
                         ELSE options.types[1].defaultValue])

RECURSIVE TestTypePath(_, _)
\* _testTypePath(type, path): the path walks declared Dictionary fields only.
TestTypePath(t, path) ==
    IF path = <<>> THEN TRUE
    ELSE IF HasTypes(t) /\ InTypes(t.types, Head(path))
    THEN TestTypePath(t.types.at[Head(path)], Tail(path))
    ELSE FALSE

RECURSIVE GetTypeByPath(_, _)
\* getTypeByPath(type, path): [ok, type], ok = FALSE standing for the
\* INVALID_PATH thrown.
GetTypeByPath(t, path) ==
    IF path = <<>> THEN Built(t)
    ELSE IF HasTypes(t) /\ InTypes(t.types, Head(path))
    THEN GetTypeByPath(t.types.at[Head(path)], Tail(path))
    ELSE Thrown("Invalid path")

\* inferType(value) of "./inferType".
RECURSIVE InferType(_)
InferType(v) ==
    CASE v.k = "boolean" -> NewBoolean(v)
      [] v.k = "string" -> NewString([defaultValue |-> v])
      [] v.k = "number" -> NewNumber([defaultValue |-> v])
      [] v.k = "object" /\ v.array ->
            LET inferred == [i \in 1..v.len |-> InferType(GetProp(v, IndexKeys[i]))]
            IN  IF \E i \in 1..v.len : ~inferred[i].ok
                THEN inferred[CHOOSE i \in 1..v.len :
                         ~inferred[i].ok /\ \A j \in 1..(i - 1) : inferred[j].ok]
                ELSE LET union == NewUnion([types |-> [i \in 1..v.len |-> inferred[i].type],
                                            defaultValue |-> v])
                     IN  IF union.ok THEN NewList([type |-> union.type]) ELSE union
      [] v.k = "object" /\ ~v.array ->
            LET inferred == [i \in 1..Len(v.keys) |-> InferType(v.at[v.keys[i]])]
            IN  IF \E i \in 1..Len(v.keys) : ~inferred[i].ok
                THEN inferred[CHOOSE i \in 1..Len(v.keys) :
                         ~inferred[i].ok /\ \A j \in 1..(i - 1) : inferred[j].ok]
                ELSE NewDictionary(Types(v.keys, [i \in 1..Len(v.keys) |-> inferred[i].type]))
      [] v.k = "null" -> NewNullable([undefined |-> FALSE])
      [] v.k = "undefined" -> NewNullable([null |-> FALSE])

(***************************************************************************)
(* Shared objects.  The only objects the Store can change in place are the *)
(* ones at declared Dictionary paths, so the only sharing that shows is of *)
(* the defaultValue objects of the schema's Dictionary nodes: `heap` maps  *)
(* the path of each such node to the current content of its defaultValue,  *)
(* and Ref(path) inside a value is that very object.                       *)
(***************************************************************************)
RECURSIVE NodePaths(_, _)
\* The paths of the Dictionary nodes (with a field mapping) under t.
NodePaths(t, prefix) ==
    IF HasTypes(t)
    THEN {prefix} \cup UNION {NodePaths(t.types.at[key], Append(prefix, key)) :
                                 key \in DOMAIN t.types.at}
    ELSE {}

\* type.defaultValue as the program holds it: the shared object of a
\* Dictionary node, else the (immutable) value.
DefaultOf(t, path) == IF HasTypes(t) THEN Ref(path) ELSE t.defaultValue

\* The objects _createDefaultDictionary built when the schema was
\* constructed: each holds its fields' defaultValue, shared, not copied.
InitHeap(type) ==
    [path \in NodePaths(type, <<>>) |->
        LET t == GetTypeByPath(type, path).type
        IN  ObjectOf(t.types.keys,
                [i \in 1..Len(t.types.keys) |->
                    DefaultOf(t.types.at[t.types.keys[i]], Append(path, t.types.keys[i]))])]

\* The object a value denotes.
Resolve(heap, v) == IF v.k = "ref" THEN heap[v.node] ELSE v

RECURSIVE Deref(_, _)
\* The value as a tree, every shared object replaced by its content.
Deref(heap, v) ==
    LET o == Resolve(heap, v)
    IN  IF IsObject(o)
        THEN [o EXCEPT !.at = [q \in DOMAIN o.at |-> Deref(heap, o.at[q])]]
        ELSE o

(***************************************************************************)
(* Path utilities ("./utils").  An operation that can throw yields         *)
(* [ok |-> FALSE, error |-> message]; _setByPath and _deleteByPath yield   *)
(* the root value and the heap after the assignment.                       *)
(***************************************************************************)
RECURSIVE Split(_, _, _)
\* selector.split(pathSeparator), the string given as its pieces: a piece
\* equal to the separator ends a key, and two separators enclose the key "".
Split(pieces, separator, key) ==
    IF pieces = <<>> THEN <<key>>
    ELSE IF Head(pieces) = separator THEN <<key>> \o Split(Tail(pieces), separator, "")
    ELSE Split(Tail(pieces), separator, Head(pieces))

\* _parsePath(selector, pathSeparator): a selector is an array of keys,
\* [array |-> TRUE, keys |-> <<...>>], or a string, [array |-> FALSE, pieces |-> <<...>>].
ParsePath(selector, separator) ==
    IF selector.array THEN selector.keys ELSE Split(selector.pieces, separator, "")

RECURSIVE GetByPath(_, _, _)
\* _getByPath(object, path).
GetByPath(heap, v, path) ==
    IF path = <<>> THEN [ok |-> TRUE, v |-> v]
    ELSE LET o == Resolve(heap, v)
         IN  IF IsObject(o) THEN GetByPath(heap, GetProp(o, Head(path)), Tail(path))
             ELSE Thrown("Invalid path")

RECURSIVE TestPath(_, _, _)
\* _testPath(object, path).
TestPath(heap, v, path) ==
    IF path = <<>> THEN TRUE
    ELSE LET o == Resolve(heap, v)
         IN  IF IsObject(o) THEN TestPath(heap, GetProp(o, Head(path)), Tail(path))
             ELSE FALSE

\* The root and the heap once the object that `v` denotes has become `o`.
WriteBack(heap, v, o) ==
    IF v.k = "ref" THEN [ok |-> TRUE, v |-> v, heap |-> [heap EXCEPT ![v.node] = o]]
    ELSE [ok |-> TRUE, v |-> o, heap |-> heap]

RECURSIVE SetByPath(_, _, _, _)
\* _setByPath(object, path, value); nothing is assigned for an empty path.
SetByPath(heap, v, path, val) ==
    IF path = <<>> THEN [ok |-> TRUE, v |-> v, heap |-> heap]
    ELSE LET o == Resolve(heap, v)
         IN  IF ~IsObject(o) THEN Thrown("Invalid path")
             ELSE IF Len(path) = 1 THEN WriteBack(heap, v, PutProp(o, path[1], val))
             ELSE LET child == GetProp(o, Head(path))
                      r == SetByPath(heap, child, Tail(path), val)
                  IN  IF ~r.ok THEN r
                      ELSE IF child.k = "ref" THEN [ok |-> TRUE, v |-> v, heap |-> r.heap]
                      ELSE WriteBack(r.heap, v, PutProp(o, Head(path), r.v))

RECURSIVE DeleteByPath(_, _, _)
\* _deleteByPath(object, path).
DeleteByPath(heap, v, path) ==
    IF path = <<>> THEN [ok |-> TRUE, v |-> v, heap |-> heap]
    ELSE LET o == Resolve(heap, v)
         IN  IF ~IsObject(o) THEN Thrown("Invalid path")
             ELSE IF Len(path) = 1 THEN WriteBack(heap, v, DelProp(o, path[1]))
             ELSE LET child == GetProp(o, Head(path))
                      r == DeleteByPath(heap, child, Tail(path))
                  IN  IF ~r.ok THEN r
                      ELSE IF child.k = "ref" THEN [ok |-> TRUE, v |-> v, heap |-> r.heap]
                      ELSE WriteBack(r.heap, v, PutProp(o, Head(path), r.v))

\* source.slice() of an array: the elements, shared, without other properties.
Slice(o) ==
    LET indices == SelectSeq(o.keys, LAMBDA q : IsIndex(q))
    IN  [o EXCEPT !.keys = indices,
                  !.at = [q \in {indices[i] : i \in 1..Len(indices)} |-> o.at[q]]]

RECURSIVE Clone(_, _, _)
RECURSIVE CloneEntries(_, _, _, _, _)
\* The forEach of _clone over Object.entries(source); refs holds the shared
\* objects met so far (objects that are not shared are met once).
CloneEntries(heap, o, i, refs, result) ==
    IF i > Len(o.keys) THEN [ok |-> TRUE, v |-> result, refs |-> refs]
    ELSE LET key == o.keys[i]
             val == o.at[key]
         IN  IF val.k \in {"object", "ref", "null"}
             THEN IF val.k = "ref" /\ val.node \in refs THEN Thrown("Circular reference")
                  ELSE LET r == Clone(heap, val, IF val.k = "ref" THEN refs \cup {val.node} ELSE refs)
                       IN  IF ~r.ok THEN r
                           ELSE CloneEntries(heap, o, i + 1, r.refs, PutProp(result, key, r.v))
             ELSE CloneEntries(heap, o, i + 1, refs, PutProp(result, key, val))

\* _clone(source, refs).  Object.entries(null) throws a TypeError.
Clone(heap, source, refs) ==
    LET o == Resolve(heap, source)
    IN  IF o.k = "null" THEN Thrown("TypeError: Cannot convert undefined or null to object")
        ELSE IF o.array THEN [ok |-> TRUE, v |-> Slice(o), refs |-> refs]
        ELSE CloneEntries(heap, o, 1, refs, NewObject)

(***************************************************************************)
(* The Store (src/src/Store.ts).                                           *)
(***************************************************************************)
VARIABLES
    cfg,      \* the fields the constructor merged from defaults and options
    medium,   \* storage.getItem(name): Null or the text stored under the name
    stores,   \* per Store instance: _value, _oldSource, _saveTimer, the
              \* timeouts pending in the event loop, the schema's shared defaults
    last,     \* the last operation: its arguments, outcome and notifier calls
    writers,  \* the Stores whose save() has written the medium since construction
    later,    \* the Stores whose latest accepted set was called after another
              \* Store's save() had written the medium
    phase,    \* per Store: "repaired" once a load() has repaired its source,
              \* "saved" once save() has then written the repaired value, else "none"
    loaded,   \* the Stores one of whose load() calls has returned true
    conflicted, \* per Store: how many saves in a row have found the sources in
              \* conflict since its last load() that returned true and since the
              \* medium last held its baseline
    built,    \* the outcome of the latest Type constructor call (Type specification)
    steps     \* operations so far

vars == <<cfg, medium, stores, last, writers, later, phase, loaded, conflicted, built, steps>>

\* type: null / undefined.
NoType == [tag |-> "none"]

\* A value in a condition: if (value).
IsTruthy(v) ==
    CASE v.k \in {"undefined", "null"} -> FALSE
      [] v.k = "boolean" -> v.b
      [] v.k = "number" -> v.half # 0
      [] v.k = "string" -> v.s # ""
      [] OTHER -> TRUE

\* Store.defaults, without the storage.
StoreDefaults ==
    [defaultValue |-> Null, delay |-> 100, lazyLoad |-> FALSE, strictLoad |-> TRUE,
     secure |-> TRUE, autoFix |-> TRUE, onInvalid |-> FALSE, onConflict |-> FALSE,
     pathSeparator |-> "."]

\* The constructor up to its call of load(): Object.assign(this,
\* Store.defaults, options), then the defaultValue taken from the type or the
\* type inferred from the defaultValue.  onInvalid and onConflict say
\* whether a callback is configured.
StoreFields(options) ==
    LET merged == [name \in DOMAIN StoreDefaults |-> Opt(options, name, StoreDefaults[name])]
            @@ [type |-> Opt(options, "type", NoType)]
        hasDefaultValue == "defaultValue" \in DOMAIN options
    IN  IF "type" \in DOMAIN options
        THEN IF hasDefaultValue THEN [ok |-> TRUE, store |-> merged]
             ELSE IF options.type = NoType
             THEN Thrown("TypeError: Cannot read property 'defaultValue' of null")
             ELSE [ok |-> TRUE,
                   store |-> [merged EXCEPT !.defaultValue = DefaultOf(options.type, <<>>)]]
        ELSE IF hasDefaultValue
        THEN LET inferred == InferType(options.defaultValue)
             IN  IF inferred.ok THEN [ok |-> TRUE, store |-> [merged EXCEPT !.type = inferred.type]]
                 ELSE inferred
        ELSE [ok |-> TRUE, store |-> merged]

\* _saveTimer: null or the handle setTimeout returned.
Handle(id) == [k |-> "timeout", id |-> id]

\* The instance fields of a Store that load() has not run on yet.
NewStore(type) ==
    [value |-> Undefined, oldSource |-> Undefined, saveTimer |-> Null, pending |-> {},
     heap |-> IF type = NoType THEN [path \in {} |-> NewObject] ELSE InitHeap(type)]

\* What an operation did: the Store and the medium after it, what it
\* returned ("true", "false", "none" for no value, "throw" with the error),
\* the argument lists its calls of onInvalid and onConflict got, the
\* failing paths of the validation it made, whether it called _save() and
\* whether it called storage.setItem.
Out(st, m, result) ==
    [st |-> st, medium |-> m, result |-> result, error |-> "",
     invalid |-> <<>>, conflict |-> <<>>, failing |-> <<>>,
     requested |-> FALSE, wrote |-> FALSE]

Throw(st, m, error) == [Out(st, m, "throw") EXCEPT !.error = error]

\* storage.getItem(name) and storage.setItem(name, value): a Storage keeps
\* strings, so undefined is stored as the string "undefined".
StorageGetItem(m) == m

StorageSetItem(value) == IF value = Undefined THEN Text(<<Word("undefined")>>) ELSE value

\* _getDefaultValue().
GetDefaultValue(st) ==
    IF IsTruthy(cfg.defaultValue) /\ cfg.defaultValue.k \in {"object", "ref"}
    THEN Clone(st.heap, cfg.defaultValue, {})
    ELSE [ok |-> TRUE, v |-> cfg.defaultValue]

\* _invalid(paths): the callback's argument list, or the throw.
Invalid(paths) ==
    IF cfg.onInvalid THEN [threw |-> FALSE, calls |-> <<paths>>]
    ELSE IF ~cfg.autoFix THEN [threw |-> TRUE, calls |-> <<>>]
    ELSE [threw |-> FALSE, calls |-> <<>>]

\* _conflict(newSource, oldSource).
Conflict(newSource, oldSource) ==
    IF cfg.onConflict THEN [threw |-> FALSE, calls |-> << <<newSource, oldSource>> >>]
    ELSE [threw |-> TRUE, calls |-> <<>>]

\* A checkConflict() that never finds the sources in conflict: C1 must not
\* hold of it.
CheckConflictNever(st, m) == [conflict |-> FALSE, threw |-> FALSE, calls |-> <<>>]

\* checkConflict().
CheckConflict(st, m) ==
    LET newSource == StorageGetItem(m)
    IN  IF newSource # st.oldSource
        THEN [conflict |-> TRUE] @@ Conflict(newSource, st.oldSource)
        ELSE [conflict |-> FALSE, threw |-> FALSE, calls |-> <<>>]

\* save(), line 121: the value is serialized, stored, and becomes the baseline.
Store(st, source) ==
    [Out([st EXCEPT !.oldSource = source], StorageSetItem(source), "true") EXCEPT !.wrote = TRUE]

\* A save() that takes the medium's text as its new baseline when it finds
\* a conflict: C22 must not hold of it.
SavedAdopting(st, m, check) ==
    IF check.threw THEN Throw(st, m, "Sources conflicted")
    ELSE IF check.conflict
    THEN [Out([st EXCEPT !.oldSource = m], m, "false") EXCEPT !.conflict = check.calls]
    ELSE Store(st, JSONStringify(Deref(st.heap, st.value)))

\* save(), check being what this.secure && this.checkConflict() did.
Saved(st, m, check) ==
    IF check.threw THEN Throw(st, m, "Sources conflicted")
    ELSE IF check.conflict THEN [Out(st, m, "false") EXCEPT !.conflict = check.calls]
    ELSE Store(st, JSONStringify(Deref(st.heap, st.value)))

\* A save() that skips the check although secure is set: C2 must not hold
\* of it.
SaveOpUnchecked(st, m) ==
    Saved(st, m, [conflict |-> FALSE, threw |-> FALSE, calls |-> <<>>])

\* save().
SaveOp(st, m) ==
    Saved(st, m, IF cfg.secure THEN CheckConflict(st, m)
                 ELSE [conflict |-> FALSE, threw |-> FALSE, calls |-> <<>>])

\* A handle setTimeout has not handed out to this Store and that is not pending.
NewHandle(st) ==
    CHOOSE id \in 1..(Cardinality(st.pending) + 2) :
        /\ id \notin st.pending
        /\ Handle(id) # st.saveTimer
        /\ \A other \in 1..(id - 1) : other \in st.pending \/ Handle(other) = st.saveTimer

\* A _save() that starts a timer without clearing the pending one: C14 must
\* not hold of it.
ScheduleWithoutClear(st) ==
    [st EXCEPT !.pending = @ \cup {NewHandle(st)}, !.saveTimer = Handle(NewHandle(st))]

\* _save() with a delay: clearTimeout(_saveTimer), then setTimeout(save, delay).
Schedule(st) ==
    LET cleared == IF st.saveTimer # Null THEN st.pending \ {st.saveTimer.id} ELSE st.pending
        id == NewHandle(st)
    IN  [st EXCEPT !.pending = cleared \cup {id}, !.saveTimer = Handle(id)]

\* _save() without a delay: save() has run, the value it returned is dropped.
Requested(saved) ==
    [saved EXCEPT !.requested = TRUE,
                  !.result = IF saved.result = "throw" THEN "throw" ELSE "none"]

\* _save().
RequestSave(st, m) ==
    IF cfg.delay # 0 THEN [Out(Schedule(st), m, "none") EXCEPT !.requested = TRUE]
    ELSE Requested(SaveOp(st, m))

RECURSIVE RepairByType(_, _, _, _, _)
\* load(), the forEach over the failing paths with a schema: a declared path
\* gets its Type's defaultValue, another is deleted.
RepairByType(heap, value, type, paths, i) ==
    IF i > Len(paths) THEN [ok |-> TRUE, v |-> value, heap |-> heap]
    ELSE LET path == paths[i]
             r == IF TestTypePath(type, path)
                  THEN SetByPath(heap, value, path,
                                 DefaultOf(GetTypeByPath(type, path).type, path))
                  ELSE DeleteByPath(heap, value, path)
         IN  IF ~r.ok THEN r ELSE RepairByType(r.heap, r.v, type, paths, i + 1)

RECURSIVE RepairByDefault(_, _, _, _, _)
\* load(), the forEach over the failing paths without a schema.
RepairByDefault(heap, value, defaultValue, paths, i) ==
    IF i > Len(paths) THEN [ok |-> TRUE, v |-> value, heap |-> heap]
    ELSE LET path == paths[i]
             r == IF TestPath(heap, defaultValue, path)
                  THEN SetByPath(heap, value, path, GetByPath(heap, defaultValue, path).v)
                  ELSE DeleteByPath(heap, value, path)
         IN  IF ~r.ok THEN r ELSE RepairByDefault(r.heap, r.v, defaultValue, paths, i + 1)

\* load(), line 195: true is returned unless _save() threw.
Installed(r, failing, calls) ==
    [r EXCEPT !.result = IF r.result = "throw" THEN "throw" ELSE "true",
              !.invalid = calls, !.failing = failing]

\* A load() that requests a save whatever the source was: C18 must not hold
\* of it.
InstallAndSave(st, m, source, value, heap, failing, calls) ==
    Installed(RequestSave([st EXCEPT !.oldSource = source, !.value = value, !.heap = heap], m),
              failing, calls)

\* load(), lines 190-195: the baseline and the value are installed, and a
\* save is requested when the source was absent or validation failed.
Install(st, m, source, value, heap, failing, calls) ==
    Installed(IF source = Null \/ failing # <<>>
              THEN RequestSave([st EXCEPT !.oldSource = source, !.value = value, !.heap = heap], m)
              ELSE Out([st EXCEPT !.oldSource = source, !.value = value, !.heap = heap], m, "none"),
              failing, calls)

\* load(), lines 158-188, once _invalid(paths) has returned: without
\* autoFix, and without a schema or a default, the load is given up; else
\* every failing path is repaired, or the whole value replaced when the
\* first failing path is the root.
Fix(st, value, default, paths) ==
    IF cfg.type # NoType
    THEN IF paths[1] # <<>>
         THEN RepairByType(st.heap, value, cfg.type, paths, 1)
         ELSE [ok |-> TRUE, v |-> DefaultOf(cfg.type, <<>>), heap |-> st.heap]
    ELSE IF paths[1] # <<>>
         THEN RepairByDefault(st.heap, value, default, paths, 1)
         ELSE [ok |-> TRUE, v |-> default, heap |-> st.heap]

Fixed(st, m, source, paths, calls, fixed) ==
    IF ~fixed.ok
    THEN [Throw(st, m, fixed.error) EXCEPT !.invalid = calls, !.failing = paths]
    ELSE Install(st, m, source, fixed.v, fixed.heap, paths, calls)

\* load(), lines 156-188: validation failed with the given paths; inv is
\* what _invalid(paths) did.
Failed(st, m, source, value, default, paths, inv) ==
    IF inv.threw
    THEN [Throw(st, m, "Invalid value at paths") EXCEPT !.failing = paths]
    ELSE IF ~cfg.autoFix \/ (cfg.type = NoType /\ ~IsTruthy(default))
    THEN [Out(st, m, "false") EXCEPT !.invalid = inv.calls, !.failing = paths]
    ELSE Fixed(st, m, source, paths, inv.calls, Fix(st, value, default, paths))

\* load(), lines 155-195: result is type && type.validate(value).
Validated(st, m, source, value, default, result) ==
    IF result.valid THEN Install(st, m, source, value, st.heap, <<>>, <<>>)
    ELSE Failed(st, m, source, value, default, result.paths, Invalid(result.paths))

\* load(), line 154 on: parsed is the default when the source is null, else
\* JSON.parse(source).
Parsed(st, m, source, default, parsed) ==
    IF ~parsed.ok THEN Throw(st, m, "SyntaxError")
    ELSE Validated(st, m, source, parsed.v, default,
                   IF cfg.type # NoType THEN Validate(cfg.type, Deref(st.heap, parsed.v))
                   ELSE [valid |-> TRUE])

\* load(), line 152 on: default is what _getDefaultValue() gave.
Sourced(st, m, source, default) ==
    IF ~default.ok THEN Throw(st, m, default.error)
    ELSE Parsed(st, m, source, default.v,
                IF source = Null THEN [ok |-> TRUE, v |-> default.v] ELSE JSONParse(source))

\* load(source); arg is Undefined when the argument is omitted.
LoadOp(st, m, arg) ==
    Sourced(st, m, IF arg = Undefined THEN StorageGetItem(m) ELSE arg, GetDefaultValue(st))

\* get(selector); selector is Undefined when the argument is omitted.
GetOp(st, selector) ==
    IF selector # Undefined /\ (selector.array \/ selector.pieces # <<>>)
    THEN GetByPath(st.heap, st.value, ParsePath(selector, cfg.pathSeparator))
    ELSE [ok |-> TRUE, v |-> st.value]

\* set(), lines 235-237: the assignment and the save request.
Commit(st, m, assigned) ==
    IF ~assigned.ok THEN Throw(st, m, assigned.error)
    ELSE Installed(RequestSave([st EXCEPT !.value = assigned.v, !.heap = assigned.heap], m),
                   <<>>, <<>>)

\* set(), lines 226-233: the candidate was rejected at the given absolute
\* paths; inv is what _invalid(paths) did.
Rejected(st, m, paths, inv) ==
    IF inv.threw THEN [Throw(st, m, "Invalid value at paths") EXCEPT !.failing = paths]
    ELSE [Out(st, m, "false") EXCEPT !.invalid = inv.calls, !.failing = paths]

\* The failing paths left relative to the target: C3 must not hold of it.
Relative(targetPath, result) == result.paths

\* set(), lines 228-230: the failing paths made absolute.
Absolute(targetPath, result) ==
    [i \in 1..Len(result.paths) |-> targetPath \o result.paths[i]]

\* set(), lines 222-238: declared is _testTypePath(type, targetPath), and
\* result is what getTypeByPath(type, targetPath).validate(value) gave when
\* the path is declared.
Checked(st, m, targetPath, value, declared, result) ==
    IF cfg.type # NoType /\ ~declared
    THEN Rejected(st, m, <<targetPath>>, Invalid(<<targetPath>>))
    ELSE IF cfg.type # NoType /\ ~result.valid
    THEN Rejected(st, m, Absolute(targetPath, result), Invalid(Absolute(targetPath, result)))
    ELSE Commit(st, m, SetByPath(st.heap, st.value, targetPath, value))

\* set(), lines 218-221: an updater is first handed the value at the path.
Patched(st, m, targetPath, patch, current) ==
    IF ~current.ok THEN Throw(st, m, current.error)
    ELSE Checked(st, m, targetPath, patch.v,
                 cfg.type # NoType /\ TestTypePath(cfg.type, targetPath),
                 IF cfg.type # NoType /\ TestTypePath(cfg.type, targetPath)
                 THEN Validate(GetTypeByPath(cfg.type, targetPath).type, patch.v)
                 ELSE [valid |-> TRUE])

\* set(selector, patch).  patch is [callable |-> FALSE, v |-> the value] or
\* [callable |-> TRUE, v |-> what the updater returns].
SetTo(st, m, targetPath, patch) ==
    Patched(st, m, targetPath, patch,
            IF patch.callable THEN GetByPath(st.heap, st.value, targetPath) ELSE [ok |-> TRUE])

SetOp(st, m, selector, patch) == SetTo(st, m, ParsePath(selector, cfg.pathSeparator), patch)

\* reset(), lines 129-143: the default to put at the path.
ResetValue(st, path, node, found) ==
    IF cfg.type # NoType
    THEN IF path = <<>> THEN [ok |-> TRUE, v |-> DefaultOf(cfg.type, <<>>), heap |-> st.heap]
         ELSE IF node.ok THEN SetByPath(st.heap, st.value, path, DefaultOf(node.type, path))
         ELSE node
    ELSE IF path = <<>> THEN [ok |-> TRUE, v |-> cfg.defaultValue, heap |-> st.heap]
         ELSE IF found.ok THEN SetByPath(st.heap, st.value, path, found.v)
         ELSE found

WasReset(st, m, done) ==
    IF done.ok THEN Out([st EXCEPT !.value = done.v, !.heap = done.heap], m, "true")
    ELSE Throw(st, m, done.error)

ResetAt(st, m, path) ==
    IF TestPath(st.heap, st.value, path) /\ (cfg.type # NoType \/ IsTruthy(cfg.defaultValue))
    THEN WasReset(st, m, ResetValue(st, path, GetTypeByPath(cfg.type, path),
                                    GetByPath(st.heap, cfg.defaultValue, path)))
    ELSE Out(st, m, "false")

\* reset(selector).
ResetOp(st, m, selector) == ResetAt(st, m, ParsePath(selector, cfg.pathSeparator))

(***************************************************************************)
(* The setups explored: schemas, options, stored texts and arguments.      *)
(***************************************************************************)
Keys(path) == [array |-> TRUE, keys |-> path]

Selector(pieces) == [array |-> FALSE, pieces |-> pieces]

Value(v) == [callable |-> FALSE, v |-> v]

Updater(v) == [callable |-> TRUE, v |-> v]

\* The schema of the demo page (src/test/index.js, lines 12-23).
DemoType ==
    NewDictionary(Types(<<"version", "str", "n">>,
        << NewNumber([defaultValue |-> Num(2), min |-> Finite(0), integer |-> TRUE]).type,
           NewString([defaultValue |-> Str("Hello, world!")]).type,
           NewNumber(NoOptions).type >>)).type

\* A Dictionary inside a Dictionary.
NestedType ==
    NewDictionary(Types(<<"sub", "n">>,
        << NewDictionary(Types(<<"x">>, <<NewNumber(NoOptions).type>>)).type,
           NewNumber(NoOptions).type >>)).type

\* A field that holds any object: dictionary() without a field mapping.
OpenType ==
    NewDictionary(Types(<<"sub", "n">>,
        << NewDictionary(NoTypes).type, NewNumber(NoOptions).type >>)).type

\* A field that may be absent: nullable({ null: false }).
OptionalType ==
    NewDictionary(Types(<<"a", "n">>,
        << NewNullable([null |-> FALSE]).type, NewNumber(NoOptions).type >>)).type

\* A field whose default is null: nullable().
NullableType ==
    NewDictionary(Types(<<"a", "n">>,
        << NewNullable(NoOptions).type, NewNumber(NoOptions).type >>)).type

DemoValue(version, str, n) == ObjectOf(<<"version", "str", "n">>, <<version, str, n>>)

\* {"version":1,"str":"Hello, world!","n":2}
ValidText == JSONStringify(DemoValue(Num(2), Str("Hello, world!"), Num(4)))

\* { "version":1.0,"str":"Hello, world!","n":2}, the same value spelled otherwise.
SpacedText ==
    Text(<<Punct("{"), Space, StrTok("version"), Punct(":"), NumTok(2, "padded"), Punct(","),
           StrTok("str"), Punct(":"), StrTok("Hello, world!"), Punct(","),
           StrTok("n"), Punct(":"), NumTok(4, "canonical"), Punct("}")>>)

\* {"version":"x","n":2}
InvalidText == JSONStringify(ObjectOf(<<"version", "n">>, <<Str("x"), Num(4)>>))

\* {"foo":"bar"}
FooText == JSONStringify(ObjectOf(<<"foo">>, <<Str("bar")>>))

\* 7
ScalarText == JSONStringify(Num(14))

\* []
ArrayText == JSONStringify(NewArray)

\* {
BrokenText == Text(<<Punct("{")>>)

\* {"sub":{"x":"no","y":1},"n":1}
NestedInvalidText ==
    JSONStringify(ObjectOf(<<"sub", "n">>,
        <<ObjectOf(<<"x", "y">>, <<Str("no"), Num(2)>>), Num(2)>>))

\* {"sub":3,"n":1}
NestedScalarText == JSONStringify(ObjectOf(<<"sub", "n">>, <<Num(6), Num(2)>>))

\* {"sub":{"x":1},"n":1}
NestedValidText ==
    JSONStringify(ObjectOf(<<"sub", "n">>, <<ObjectOf(<<"x">>, <<Num(2)>>), Num(2)>>))

\* {"n":"no"} and {"a":null,"n":1}
FieldInvalidText == JSONStringify(ObjectOf(<<"n">>, <<Str("no")>>))

NullFieldText == JSONStringify(ObjectOf(<<"a", "n">>, <<Null, Num(2)>>))

\* The options of the demo page: both callbacks configured.
DemoOptions(type) == [type |-> type, onInvalid |-> TRUE, onConflict |-> TRUE]

\* The stored texts and the arguments tried with each schema.
DemoInputs ==
    [texts |-> {ValidText, SpacedText, InvalidText, FooText, ScalarText, ArrayText, BrokenText},
     sets |-> { <<Selector(<<"n">>), Value(Num(10))>>,
                <<Selector(<<"version">>), Value(Num(-2))>>,
                <<Keys(<<"version">>), Value(Num(3))>>,
                <<Keys(<<"foo">>), Value(Num(2))>>,
                <<Keys(<<>>), Value(DemoValue(Num(6), Str("hi"), Num(0)))>>,
                <<Selector(<<"str">>), Updater(Str("hi"))>> },
     resets |-> {Selector(<<"n">>), Keys(<<>>), Keys(<<"foo">>)},
     sources |-> {InvalidText}]

NestedInputs ==
    [texts |-> {NestedValidText, NestedInvalidText, NestedScalarText},
     sets |-> { <<Selector(<<"sub", ".", "x">>), Value(Num(10))>>,
                <<Keys(<<"sub">>), Value(ObjectOf(<<"x", "y">>, <<Str("no"), Num(2)>>))>>,
                <<Keys(<<"sub">>), Value(ObjectOf(<<"x">>, <<Num(6)>>))>>,
                <<Selector(<<"sub", ".", "y">>), Value(Num(2))>> },
     resets |-> {Keys(<<"sub">>), Keys(<<>>), Selector(<<"sub", ".", "x">>)},
     sources |-> {NestedInvalidText}]

NullableInputs ==
    [texts |-> {NullFieldText, FieldInvalidText},
     sets |-> { <<Selector(<<"a">>), Value(Null)>>,
                <<Selector(<<"n">>), Value(Num(10))>> },
     resets |-> {Selector(<<"a">>)},
     sources |-> {NullFieldText}]

OptionalInputs ==
    [texts |-> {FieldInvalidText, NullFieldText},
     sets |-> { <<Selector(<<"n">>), Value(Num(10))>>,
                <<Selector(<<"a">>), Value(Undefined)>>,
                <<Selector(<<"a">>), Value(Bool(TRUE))>> },
     resets |-> {Selector(<<"a">>)},
     sources |-> {FieldInvalidText}]

OpenInputs ==
    [texts |-> {NestedValidText},
     sets |-> { <<Selector(<<"n">>), Value(Num(10))>>,
                <<Keys(<<"sub">>), Value(ObjectOf(<<"y">>, <<Num(2)>>))>> },
     resets |-> {Selector(<<"sub", ".", "x">>), Keys(<<"sub">>)},
     sources |-> {NestedValidText}]

UntypedInputs ==
    [texts |-> {ValidText, BrokenText},
     sets |-> { <<Selector(<<"n">>), Value(Num(10))>>,
                <<Keys(<<>>), Value(Num(10))>> },
     resets |-> {Keys(<<>>)},
     sources |-> {ValidText}]

\* Each setup: the options given to new Store(name, options) and the inputs.
Setups ==
    {[options |-> o @@ DemoOptions(DemoType), inputs |-> DemoInputs] :
        o \in { NoOptions,
                [delay |-> 0],
                [lazyLoad |-> TRUE],
                [autoFix |-> FALSE],
                [autoFix |-> FALSE, onInvalid |-> FALSE],
                [secure |-> FALSE, onConflict |-> FALSE],
                [onConflict |-> FALSE, onInvalid |-> FALSE, delay |-> 0] }}
    \cup {[options |-> o @@ DemoOptions(NestedType), inputs |-> NestedInputs] :
        o \in {NoOptions, [autoFix |-> FALSE]}}
    \cup {[options |-> DemoOptions(OptionalType), inputs |-> OptionalInputs],
          [options |-> DemoOptions(OpenType), inputs |-> OpenInputs],
          [options |-> [lazyLoad |-> TRUE] @@ DemoOptions(NullableType),
           inputs |-> NullableInputs],
          [options |-> [lazyLoad |-> TRUE, autoFix |-> FALSE] @@ DemoOptions(NullableType),
           inputs |-> NullableInputs],
          [options |-> NoOptions, inputs |-> UntypedInputs],
          [options |-> [delay |-> 0, onConflict |-> TRUE], inputs |-> UntypedInputs]}

\* Two Stores over one key, as two tabs showing the demo page would be,
\* with a debounced and with a synchronous save; the key holds a text that
\* loads without repair.
TwoInputs ==
    [texts |-> {ValidText, SpacedText},
     sets |-> { <<Selector(<<"n">>), Value(Num(10))>>,
                <<Selector(<<"n">>), Value(Num(4))>>,
                <<Selector(<<"version">>), Value(Num(-2))>> },
     resets |-> {},
     sources |-> {}]

TwoSetups ==
    {[options |-> o @@ DemoOptions(DemoType), inputs |-> TwoInputs] :
        o \in {NoOptions, [delay |-> 0]}}

\* The inputs that go with the schema the Stores were constructed with.
Inputs ==
    IF DOMAIN stores = {"A"}
    THEN (CHOOSE setup \in Setups : StoreFields(setup.options).store.type = cfg.type).inputs
    ELSE TwoInputs

(***************************************************************************)
(* The state machine.                                                      *)
(***************************************************************************)
Record(op, s, selector, arg, out) ==
    [op |-> op, s |-> s, selector |-> selector, arg |-> arg, result |-> out.result,
     error |-> out.error, invalid |-> out.invalid, conflict |-> out.conflict,
     failing |-> out.failing, requested |-> out.requested, wrote |-> out.wrote]

\* new Store(name, options) after StoreFields, over a medium holding m:
\* unless lazyLoad, the constructor ends with load().
Construct(m) ==
    IF cfg.lazyLoad THEN Out(NewStore(cfg.type), m, "none")
    ELSE LoadOp(NewStore(cfg.type), m, Undefined)

\* Where a Store stands in the sequence load (repairing a stored text),
\* save, load.
Phase(was, op, out) ==
    IF op \in {"new", "load"}
    THEN IF out.result = "true" /\ out.failing # <<>> /\ IsText(out.st.oldSource)
         THEN "repaired" ELSE "none"
    ELSE IF op \in {"save", "timeout"}
    THEN IF out.wrote /\ was = "repaired" THEN "saved" ELSE IF out.wrote THEN "none" ELSE was
    ELSE "none"

\* save() has found the sources in conflict during the operation.
FoundConflict(out) ==
    out.conflict # <<>> \/ (out.result = "throw" /\ out.error = "Sources conflicted")

\* The saves in a row of a Store that found a conflict, after an operation
\* of that Store: a load that returns true starts the count again, and the
\* save it runs itself comes after what it loaded.
Conflicts(was, op, out) ==
    IF out.wrote THEN 0
    ELSE IF op \in {"new", "load"} /\ out.result = "true"
    THEN IF FoundConflict(out) THEN 1 ELSE 0
    ELSE IF FoundConflict(out) THEN was + 1
    ELSE was

\* One Store constructed, and two, one after the other.  A constructor that
\* throws leaves no Store.
MadeOne(ids, first) ==
    /\ first.result # "throw"
    /\ stores = (ids[1] :> first.st)
    /\ medium = first.medium
    /\ phase = (ids[1] :> Phase("none", "new", first))
    /\ loaded = IF first.result = "true" THEN {ids[1]} ELSE {}
    /\ conflicted = (ids[1] :> Conflicts(0, "new", first))
    /\ last = Record("new", ids[1], Undefined, Undefined, first)

MadeTwo(ids, first, second) ==
    /\ first.result # "throw"
    /\ second.result # "throw"
    /\ stores = (ids[1] :> first.st) @@ (ids[2] :> second.st)
    /\ medium = second.medium
    /\ phase = (ids[1] :> Phase("none", "new", first)) @@ (ids[2] :> Phase("none", "new", second))
    /\ loaded = (IF first.result = "true" THEN {ids[1]} ELSE {})
                    \cup (IF second.result = "true" THEN {ids[2]} ELSE {})
    /\ conflicted = (ids[1] :> IF second.medium = first.st.oldSource THEN 0
                                ELSE Conflicts(0, "new", first))
                        @@ (ids[2] :> Conflicts(0, "new", second))
    /\ last = Record("new", ids[2], Undefined, Undefined, second)

Fields(fields) == fields.ok /\ cfg = fields.store

InitWith(ids, setups) ==
    \E setup \in setups :
        \E m0 \in (IF Len(ids) = 1 THEN {Null} ELSE {}) \cup setup.inputs.texts :
            /\ Fields(StoreFields(setup.options))
            /\ IF Len(ids) = 1 THEN MadeOne(ids, Construct(m0))
               ELSE MadeTwo(ids, Construct(m0), Construct(Construct(m0).medium))
            /\ writers = {}
            /\ later = {}
            /\ built = Null
            /\ steps = 0

Init == InitWith(<<"A">>, Setups)

\* How many operations a behaviour may hold.
Limit == IF DOMAIN stores = {"A"} THEN MaxSteps ELSE MaxStepsTwo

Step(s, op, selector, arg, out) ==
    /\ steps < Limit
    /\ stores' = [stores EXCEPT ![s] = out.st]
    /\ medium' = out.medium
    /\ last' = Record(op, s, selector, arg, out)
    /\ writers' = IF out.wrote THEN writers \cup {s} ELSE writers
    /\ later' = IF op = "set" /\ out.requested
                THEN IF writers \ {s} # {} THEN later \cup {s} ELSE later \ {s}
                ELSE later
    /\ phase' = [phase EXCEPT ![s] = Phase(@, op, out)]
    /\ loaded' = IF op = "load" /\ out.result = "true" THEN loaded \cup {s} ELSE loaded
    /\ conflicted' = [t \in DOMAIN conflicted |->
                          IF t = s THEN Conflicts(conflicted[s], op, out)
                          ELSE IF out.wrote /\ out.medium = stores[t].oldSource THEN 0
                          ELSE conflicted[t]]
    /\ steps' = steps + 1
    /\ UNCHANGED <<cfg, built>>

\* store.load() and store.load(source).
Load(s) ==
    \E arg \in {Undefined, Null} \cup Inputs.sources :
        Step(s, "load", Undefined, arg, LoadOp(stores[s], medium, arg))

\* store.set(selector, patch).
Set(s) ==
    \E input \in Inputs.sets :
        Step(s, "set", input[1], input[2], SetOp(stores[s], medium, input[1], input[2]))

\* store.reset(selector).
Reset(s) ==
    \E selector \in Inputs.resets :
        Step(s, "reset", selector, Undefined, ResetOp(stores[s], medium, selector))

\* store.save(), called directly.
Save(s) == Step(s, "save", Undefined, Undefined, SaveOp(stores[s], medium))

\* A timeout set by _save() expires: the event loop calls the bound save.
Timeout(s) ==
    \E id \in stores[s].pending :
        Step(s, "timeout", Undefined, Undefined,
             SaveOp([stores[s] EXCEPT !.pending = @ \ {id}], medium))

\* Another agent (tab, process) sets or removes the item under the name.
Write ==
    \E text \in ({Null} \cup Inputs.texts) \ {medium} :
        /\ steps < Limit
        /\ medium' = text
        /\ last' = Record("write", "", Undefined, text, Out(Null, text, "none"))
        /\ phase' = [s \in DOMAIN phase |-> "none"]
        /\ conflicted' = [t \in DOMAIN conflicted |->
                              IF text = stores[t].oldSource THEN 0 ELSE conflicted[t]]
        /\ steps' = steps + 1
        /\ UNCHANGED <<cfg, stores, writers, later, loaded, built>>

Next ==
    \/ \E s \in DOMAIN stores : Load(s)
    \/ \E s \in DOMAIN stores : Set(s)
    \/ \E s \in DOMAIN stores : Reset(s)
    \/ \E s \in DOMAIN stores : Save(s)
    \/ \E s \in DOMAIN stores : Timeout(s)
    \/ Write

Spec == Init /\ [][Next]_vars

\* Two Stores A and B over the same key, constructed one after the other on
\* the same stored text; then any interleaving of their set calls and of the
\* firings of their timers.
InitTwo == InitWith(<<"A", "B">>, TwoSetups)

NextTwo ==
    \/ \E s \in DOMAIN stores : Set(s)
    \/ \E s \in DOMAIN stores : Timeout(s)

SpecTwo == InitTwo /\ [][NextTwo]_vars

(***************************************************************************)
(* The Type constructors on their own: a Type is constructed from options, *)
(* Types are constructed over it, and validate is applied to values.       *)
(***************************************************************************)
\* How many Types are constructed over the first one.
MaxDepth == 2

AnyDefaults == {Undefined, Num(2)}

BooleanDefaults == {Undefined, Bool(TRUE), Num(0)}

StringOptions ==
    { NoOptions,
      [defaultValue |-> Str("ab")],
      [minLength |-> Finite(1)],
      [defaultValue |-> Str("ab"), maxLength |-> Finite(1)],
      [defaultValue |-> Str("ab"), pattern |-> Pattern({"ab", "b"})],
      [defaultValue |-> Num(0)] }

NumberOptions ==
    { NoOptions,
      [min |-> Finite(2)],
      [defaultValue |-> Num(3)],
      [defaultValue |-> Num(3), integer |-> TRUE],
      [defaultValue |-> Num(4), min |-> Finite(0), max |-> Finite(4), integer |-> TRUE],
      [defaultValue |-> Str("")] }

NullableOptions ==
    { n @@ u @@ d :
        n \in {NoOptions, [null |-> TRUE], [null |-> FALSE]},
        u \in {NoOptions, [undefined |-> TRUE], [undefined |-> FALSE]},
        d \in {NoOptions, [defaultValue |-> Null], [defaultValue |-> Undefined]} }

\* The values validate is applied to.
SampleValues ==
    { Undefined, Null, Bool(TRUE), Bool(FALSE), Num(0), Num(3), Num(4), Str(""), Str("ab"),
      NewObject, NewArray, ArrayOf(<<Null>>), ArrayOf(<<Str("zz")>>),
      ObjectOf(<<"a", "n">>, <<Null, Num(0)>>),
      ObjectOf(<<"n">>, <<Num(0)>>),
      ObjectOf(<<"a", "n", "b">>, <<Bool(TRUE), Str(""), Num(0)>>),
      ObjectOf(<<"a", "n", "b">>,
               <<ObjectOf(<<"n", "z">>, <<Str(""), Num(0)>>), Str(""), Num(0)>>) }

\* The example values a type is inferred from: booleans, strings, numbers,
\* null, arrays (empty, homogeneous, heterogeneous) and plain objects.
InferValues ==
    { Bool(TRUE), Str("ab"), Num(3), Null,
      NewArray, ArrayOf(<<Num(0), Num(3)>>), ArrayOf(<<Num(0), Str("ab")>>),
      NewObject,
      ObjectOf(<<"n", "s">>, <<Num(3), Str("ab")>>),
      ObjectOf(<<"a", "n">>, <<Null, Num(0)>>),
      ObjectOf(<<"list", "n">>, <<ArrayOf(<<Bool(TRUE)>>), Num(0)>>),
      ObjectOf(<<"sub">>, <<ObjectOf(<<"x">>, <<Num(0)>>)>>) }

\* new Any(..), new Boolean(..), new String(..), new Number(..),
\* new Nullable(..) and new Dictionary() with the options above.
Leaves ==
    {NewAny(d) : d \in AnyDefaults}
    \cup {NewBoolean(d) : d \in BooleanDefaults}
    \cup {NewString(o) : o \in StringOptions}
    \cup {NewNumber(o) : o \in NumberOptions}
    \cup {NewNullable(o) : o \in NullableOptions}
    \cup {NewDictionary(NoTypes)}

InitTypes ==
    /\ built \in Leaves
    /\ last = [op |-> "new"]
    /\ steps = 0
    /\ cfg = Null
    /\ medium = Null
    /\ stores = <<>>
    /\ writers = {}
    /\ later = {}
    /\ phase = <<>>
    /\ loaded = {}
    /\ conflicted = <<>>

Constructed(outcome) ==
    /\ steps < MaxDepth
    /\ built' = outcome
    /\ last' = [op |-> "new"]
    /\ steps' = steps + 1
    /\ UNCHANGED <<cfg, medium, stores, writers, later, phase, loaded, conflicted>>

\* new Dictionary({ a: type, n: number() }).
DictionaryOver ==
    /\ built.ok
    /\ Constructed(NewDictionary(Types(<<"a", "n">>,
                                       <<built.type, NewNumber(NoOptions).type>>)))

\* new List({ type, defaultValue? }).
ListOver ==
    /\ built.ok
    /\ \E d \in {NoOptions,
                  [defaultValue |-> ArrayOf(<<built.type.defaultValue>>)],
                  [defaultValue |-> ArrayOf(<<Str("zz")>>)],
                  [defaultValue |-> Str("zz")]} :
          Constructed(NewList(d @@ [type |-> built.type]))

\* new Union({ types: [type, boolean()], defaultValue? }).
UnionOver ==
    /\ built.ok
    /\ \E d \in {NoOptions, [defaultValue |-> Bool(TRUE)], [defaultValue |-> Str("zz")]} :
          Constructed(NewUnion(d @@ [types |-> <<built.type, NewBoolean(Undefined).type>>]))

\* inferType(value).
Infer ==
    /\ steps < MaxDepth
    /\ \E v \in InferValues :
          /\ built' = InferType(v)
          /\ last' = [op |-> "infer", value |-> v]
    /\ steps' = steps + 1
    /\ UNCHANGED <<cfg, medium, stores, writers, later, phase, loaded, conflicted>>

\* type.validate(value).
ValidateValue ==
    /\ built.ok
    /\ \E v \in SampleValues :
          last' = [op |-> "validate", value |-> v, result |-> Validate(built.type, v)]
    /\ UNCHANGED <<cfg, medium, stores, writers, later, phase, loaded, conflicted, built, steps>>

NextTypes == DictionaryOver \/ ListOver \/ UnionOver \/ Infer \/ ValidateValue

SpecTypes == InitTypes /\ [][NextTypes]_vars

(***************************************************************************)
(* Properties.                                                             *)
(***************************************************************************)
\* The step taken is one of the operations `ops` on Store s.
Did(s, ops) == steps' = steps + 1 /\ last'.s = s /\ last'.op \in ops

\* The source a load(arg) reads.
Source(arg) == IF arg = Undefined THEN medium ELSE arg

\* C1: with secure enabled and a conflict notifier configured, whenever
\* save() runs (called directly or by an expired timer) while the medium's
\* text differs from the Store's baseline, it calls the notifier exactly
\* once with (the medium's text, the baseline), returns false, and leaves
\* the medium, the baseline and the in-memory value unchanged; a save()
\* that set() runs synchronously in that situation does the same after the
\* assignment.
C1_ConflictingSave ==
    [][\A s \in DOMAIN stores :
          /\ ( /\ Did(s, {"save", "timeout"})
               /\ cfg.secure /\ cfg.onConflict
               /\ medium # stores[s].oldSource )
             => /\ last'.conflict = << <<medium, stores[s].oldSource>> >>
                /\ last'.result = "false"
                /\ ~last'.wrote
                /\ medium' = medium
                /\ stores'[s].oldSource = stores[s].oldSource
                /\ stores'[s].value = stores[s].value
                /\ stores'[s].heap = stores[s].heap
          /\ ( /\ Did(s, {"set"})
               /\ last'.requested /\ cfg.delay = 0
               /\ cfg.secure /\ cfg.onConflict
               /\ medium # stores[s].oldSource )
             => /\ last'.conflict = << <<medium, stores[s].oldSource>> >>
                /\ ~last'.wrote
                /\ medium' = medium
                /\ stores'[s].oldSource = stores[s].oldSource]_vars

\* A save() has just found the sources in conflict and told the notifier.
C1_Witness ==
    /\ cfg # Null /\ cfg.secure /\ cfg.onConflict
    /\ last.op \in {"save", "timeout"}
    /\ last.result = "false"
    /\ Len(last.conflict) = 1
    /\ medium # stores[last.s].oldSource

\* The save of B that a set called after A's save triggers, A having
\* written the medium and B not: the set itself when saves are synchronous,
\* else the firing of the timer that set started.
SaveOfLaterSet ==
    /\ "A" \in writers
    /\ "B" \notin writers
    /\ \/ Did("B", {"set"}) /\ last'.requested /\ cfg.delay = 0
       \/ Did("B", {"timeout"}) /\ "B" \in later

\* C2 as stated: for two secure Stores A and B over one key that loaded the
\* same content, once A's set has been saved, the save triggered by any
\* later set on B does not write the medium but calls B's conflict notifier,
\* so the medium still holds what A wrote.
C2_NeverOverwrites ==
    [][SaveOfLaterSet
       => /\ ~last'.wrote
          /\ medium' = medium
          /\ Len(last'.conflict) = 1]_vars

\* C2, amended: the same, provided the text A saved differs from the text
\* both Stores loaded, which is still B's baseline; then B's notifier is
\* called with (the text A saved, the text B loaded).
C2_NeverOverwritesAChange ==
    [][(SaveOfLaterSet /\ medium # stores["B"].oldSource)
       => /\ ~last'.wrote
          /\ medium' = medium
          /\ last'.conflict = << <<medium, stores["B"].oldSource>> >>]_vars

\* B's timer, started by a set called after A's save, has fired and found
\* the conflict.
C2_Witness ==
    /\ "A" \in writers
    /\ "B" \notin writers
    /\ "B" \in later
    /\ last.s = "B"
    /\ last.op = "timeout"
    /\ Len(last.conflict) = 1
    /\ medium # stores["B"].oldSource

\* The target path of a set, and what the schema says of a candidate there.
TargetPath(selector) == ParsePath(selector, cfg.pathSeparator)

IsRejected(path, candidate) ==
    \/ ~TestTypePath(cfg.type, path)
    \/ ~Validate(GetTypeByPath(cfg.type, path).type, candidate).valid

RejectedAt(path, candidate) ==
    IF ~TestTypePath(cfg.type, path) THEN <<path>>
    ELSE [i \in 1..Len(Validate(GetTypeByPath(cfg.type, path).type, candidate).paths) |->
             path \o Validate(GetTypeByPath(cfg.type, path).type, candidate).paths[i]]

C4_GetAfterSet ==
    [][\A s \in DOMAIN stores :
          ( /\ Did(s, {"set"})
            /\ cfg.type # NoType
            /\ stores[s].oldSource # Undefined
            /\ ~IsRejected(TargetPath(last'.selector), last'.arg.v)
            /\ last'.result # "throw" )
          => /\ last'.result = "true"
             /\ GetOp(stores'[s], last'.selector).ok
             /\ DeepEqual(Deref(stores'[s].heap, GetOp(stores'[s], last'.selector).v),
                          last'.arg.v)]_vars

\* The same for the paths that are not the root.
C4_GetAfterSetBelowRoot ==
    [][\A s \in DOMAIN stores :
          ( /\ Did(s, {"set"})
            /\ cfg.type # NoType
            /\ stores[s].oldSource # Undefined
            /\ TargetPath(last'.selector) # <<>>
            /\ ~IsRejected(TargetPath(last'.selector), last'.arg.v)
            /\ last'.result # "throw" )
          => /\ last'.result = "true"
             /\ GetOp(stores'[s], last'.selector).ok
             /\ DeepEqual(Deref(stores'[s].heap, GetOp(stores'[s], last'.selector).v),
                          last'.arg.v)]_vars

\* Locations of a value as a tree: whether a path of own keys resolves, what
\* it resolves to, and every such path.
RECURSIVE Has(_, _)
Has(v, path) ==
    \/ path = <<>>
    \/ IsObject(v) /\ HasOwn(v, Head(path)) /\ Has(v.at[Head(path)], Tail(path))

RECURSIVE At(_, _)
At(v, path) == IF path = <<>> THEN v ELSE At(v.at[Head(path)], Tail(path))

RECURSIVE PathsIn(_)
PathsIn(v) ==
    {<<>>} \cup (IF IsObject(v)
                THEN UNION {{<<q>> \o p : p \in PathsIn(v.at[q])} : q \in DOMAIN v.at}
                ELSE {})

IsPrefix(p, q) == Len(p) <= Len(q) /\ SubSeq(q, 1, Len(p)) = p

\* A location at, under or above a failing path.
Touched(q, paths) == \E i \in 1..Len(paths) : IsPrefix(paths[i], q) \/ IsPrefix(q, paths[i])

\* (a)-(d) of C5: what `repaired` must be, given the parsed source and its
\* failing paths.
IsRepairOf(parsed, paths, repaired) ==
    IF paths[1] = <<>> THEN DeepEqual(repaired, cfg.type.defaultValue)
    ELSE /\ \A i \in 1..Len(paths) :
               IF TestTypePath(cfg.type, paths[i])
               THEN /\ Has(repaired, paths[i])
                    /\ DeepEqual(At(repaired, paths[i]),
                                 GetTypeByPath(cfg.type, paths[i]).type.defaultValue)
               ELSE ~Has(repaired, paths[i])
         /\ \A q \in PathsIn(parsed) \cup PathsIn(repaired) :
               ~Touched(q, paths)
               => Has(parsed, q) /\ Has(repaired, q) /\ DeepEqual(At(parsed, q), At(repaired, q))

\* The source is a text that parses to a value failing the schema.
FailsSchema(source) ==
    /\ cfg.type # NoType
    /\ IsText(source)
    /\ JSONParse(source).ok
    /\ ~Validate(cfg.type, JSONParse(source).v).valid

\* C5 as stated, for a load that returns: when load() with autoFix enabled
\* parses a source that fails the schema, it returns true and the value in
\* memory has (a) every failing path the schema declares overwritten with
\* that sub-Type's default, (b) every failing path the schema does not
\* declare deleted, (c) the whole value replaced by the schema default when
\* the failing path is empty, (d) every other location as the source had it.
C5_AutoFix ==
    [][\A s \in DOMAIN stores :
          ( /\ Did(s, {"load"})
            /\ cfg.autoFix
            /\ FailsSchema(Source(last'.arg))
            /\ last'.result # "throw" )
          => /\ last'.result = "true"
             /\ IsRepairOf(JSONParse(Source(last'.arg)).v,
                           Validate(cfg.type, JSONParse(Source(last'.arg)).v).paths,
                           Deref(stores'[s].heap, stores'[s].value))]_vars

\* C6 as stated: with autoFix disabled and an invalid notifier configured, a load()
\* of a source that fails the schema returns false, leaves the in-memory
\* value, the baseline, the timer and the medium as they were, and
\* requests no save.
C6_LoadRejected ==
    [][\A s \in DOMAIN stores :
          ( /\ Did(s, {"load"})
            /\ ~cfg.autoFix
            /\ cfg.onInvalid
            /\ FailsSchema(Source(last'.arg)) )
          => /\ last'.result = "false"
             /\ stores'[s] = stores[s]
             /\ medium' = medium
             /\ ~last'.requested
             /\ ~last'.wrote]_vars

\* C7 as stated: when a Store has neither a schema nor a default value and
\* the medium holds nothing under its name, load() returns false: it
\* installs no value, sets no baseline and requests no save.
C7_NothingToLoad ==
    [][\A s \in DOMAIN stores :
          ( /\ Did(s, {"load"})
            /\ cfg.type = NoType
            /\ cfg.defaultValue = Null
            /\ last'.arg = Undefined
            /\ medium = Null )
          => /\ last'.result = "false"
             /\ stores'[s] = stores[s]
             /\ ~last'.requested]_vars

\* C8 as stated, for the sources spelled as JSON.stringify spells them: for
\* every source that parses to a value valid under the schema, load()
\* returns true and serializing get() afterwards yields the source.
C8_RoundTrip ==
    [][\A s \in DOMAIN stores :
          ( /\ Did(s, {"load"})
            /\ cfg.type # NoType
            /\ IsText(Source(last'.arg))
            /\ JSONParse(Source(last'.arg)).ok
            /\ Validate(cfg.type, JSONParse(Source(last'.arg)).v).valid
            /\ JSONStringify(JSONParse(Source(last'.arg)).v) = Source(last'.arg) )
          => /\ last'.result = "true"
             /\ JSONStringify(Deref(stores'[s].heap, GetOp(stores'[s], Undefined).v))
                   = Source(last'.arg)]_vars

\* C9 as stated: after a load() that repaired an invalid source and a
\* save() that wrote the repaired value, load() again reports no failing
\* path, requests no save, and yields a value deep-equal to the first one.
C9_RepairIsStable ==
    [][\A s \in DOMAIN stores :
          ( /\ Did(s, {"load"})
            /\ last'.arg = Undefined
            /\ phase[s] = "saved" )
          => /\ last'.result = "true"
             /\ last'.failing = <<>>
             /\ ~last'.requested
             /\ DeepEqual(Deref(stores'[s].heap, stores'[s].value),
                          Deref(stores[s].heap, stores[s].value))]_vars

\* C10 as stated: every Type constructed without error validates its own
\* defaultValue.
C10_DefaultIsValid ==
    built.ok => Validate(built.type, built.type.defaultValue).valid

\* The failing paths of a validating result, as a set.
PathSet(result) ==
    IF result.valid THEN {} ELSE {result.paths[i] : i \in 1..Len(result.paths)}

\* What C11 says a Dictionary with the field mapping of t reports for the
\* object v: a path for each own key of v the mapping does not declare, and
\* each failing path of each declared field's Type for v[f], after the key f.
DictionaryPaths(t, v) ==
    {<<q>> : q \in DOMAIN v.at \ DOMAIN t.types.at}
    \cup UNION {{<<f>> \o p : p \in PathSet(Validate(t.types.at[f], GetProp(v, f)))} :
                   f \in DOMAIN t.types.at}

C12_ListValidate ==
    (built # Null /\ built.ok /\ built.type.tag = "List" /\ last.op = "validate")
    => /\ last.result.valid
          <=> /\ IsArray(last.value)
              /\ \A q \in DOMAIN last.value.at :
                    IsIndex(q) => Validate(built.type.type, last.value.at[q]).valid
       /\ ~last.result.valid => last.result.paths = << <<>> >>

\* C13 as stated: Nullable.validate accepts null iff the null flag is set,
\* undefined iff the undefined flag is set, and nothing else; and new
\* Nullable with both flags false throws.
C13_NullableValidate ==
    /\ \A o \in NullableOptions :
          (~Opt(o, "null", TRUE) /\ ~Opt(o, "undefined", TRUE)) => ~NewNullable(o).ok
    /\ (built # Null /\ built.ok /\ built.type.tag = "Nullable" /\ last.op = "validate")
       => (last.result.valid
           <=> \/ last.value = Null /\ built.type.null
               \/ last.value = Undefined /\ built.type.undefined)

\* What storage.setItem receives when save() serializes the Store's value.
Serialized(st) == StorageSetItem(JSONStringify(Deref(st.heap, st.value)))

\* C14: a Store has at most one pending save timer at any time.  With a
\* delay, a set that returns true writes nothing itself, cancels the pending
\* timer and leaves exactly one, new, timer pending; when that timer fires,
\* save() runs once on the value as the last set left it (writing its
\* serialization unless it finds a conflict) and no timer is left, so sets
\* with no firing in between cause one save.  Without a delay, a set that
\* returns true has run save() before returning: it wrote the serialization
\* of the new value, or found a conflict and told the notifier.
C14_Debounce ==
    /\ [](\A s \in DOMAIN stores : Cardinality(stores[s].pending) <= 1)
    /\ [][\A s \in DOMAIN stores :
            /\ (Did(s, {"set"}) /\ last'.result = "true" /\ cfg.delay # 0)
               => /\ last'.requested
                  /\ ~last'.wrote /\ medium' = medium
                  /\ stores'[s].saveTimer.k = "timeout"
                  /\ stores'[s].pending = {stores'[s].saveTimer.id}
                  /\ stores'[s].saveTimer.id \notin stores[s].pending
            /\ (Did(s, {"timeout"}) /\ last'.result # "throw")
               => /\ stores'[s].pending = {}
                  /\ stores'[s].value = stores[s].value
                  /\ stores'[s].heap = stores[s].heap
                  /\ \/ last'.wrote /\ medium' = Serialized(stores[s])
                     \/ ~last'.wrote /\ medium' = medium /\ Len(last'.conflict) = 1
            /\ (Did(s, {"set"}) /\ last'.result = "true" /\ cfg.delay = 0)
               => /\ last'.requested
                  /\ stores'[s].pending = stores[s].pending
                  /\ \/ last'.wrote /\ medium' = Serialized(stores'[s])
                     \/ ~last'.wrote /\ medium' = medium /\ Len(last'.conflict) = 1]_vars

\* After two sets (of n and of str) the one timer left has fired and written
\* the value holding both, and no timer is pending.
C14_Witness ==
    /\ cfg # Null /\ cfg.delay # 0 /\ cfg.type = DemoType
    /\ last.op = "timeout" /\ last.wrote
    /\ stores[last.s].pending = {}
    /\ Deref(stores[last.s].heap, stores[last.s].value).at["n"] = Num(10)
    /\ Deref(stores[last.s].heap, stores[last.s].value).at["str"] = Str("hi")
    /\ medium = Serialized(stores[last.s])

\* The live value and the value after the step agree at every location
\* that is not at, under or above the path.
SameElsewhere(old, new, path) ==
    \A q \in PathsIn(old) \cup PathsIn(new) :
        ~Touched(q, <<path>>)
        => Has(old, q) /\ Has(new, q) /\ DeepEqual(At(old, q), At(new, q))

\* C15 as stated: reset(selector) returns true iff the parsed path resolves
\* in the live value (_testPath), and otherwise returns false and changes
\* nothing; for a path that resolves it does not throw; after it returned
\* true on a Store with a schema, get at the path is deep-equal to the
\* schema's default at that path and every other location is unchanged.
C15_Reset ==
    [][\A s \in DOMAIN stores :
          Did(s, {"reset"})
          => /\ last'.result = "true"
                <=> TestPath(stores[s].heap, stores[s].value, TargetPath(last'.selector))
             /\ last'.result # "true"
                => /\ last'.result = "false"
                   /\ stores'[s] = stores[s]
                   /\ medium' = medium
             /\ (last'.result = "true" /\ cfg.type # NoType)
                => /\ GetOp(stores'[s], last'.selector).ok
                   /\ GetTypeByPath(cfg.type, TargetPath(last'.selector)).ok
                   /\ DeepEqual(Deref(stores'[s].heap, GetOp(stores'[s], last'.selector).v),
                                GetTypeByPath(cfg.type, TargetPath(last'.selector)).type.defaultValue)
                   /\ TargetPath(last'.selector) # <<>>
                      => SameElsewhere(Deref(stores[s].heap, stores[s].value),
                                       Deref(stores'[s].heap, stores'[s].value),
                                       TargetPath(last'.selector))]_vars

\* C16 as stated, its immediate part: a reset that returns true requests a
\* save as a set does: with a delay it leaves exactly one, new, timer
\* pending, and without a delay it has written the serialization of the
\* reset value or found a conflict.
C16_ResetRequestsSave ==
    [][\A s \in DOMAIN stores :
          (Did(s, {"reset"}) /\ last'.result = "true")
          => /\ last'.requested
             /\ cfg.delay # 0
                => /\ stores'[s].saveTimer.k = "timeout"
                   /\ stores'[s].pending = {stores'[s].saveTimer.id}
                   /\ stores'[s].saveTimer.id \notin stores[s].pending
             /\ cfg.delay = 0
                => \/ last'.wrote /\ medium' = Serialized(stores'[s])
                   \/ ~last'.wrote /\ Len(last'.conflict) = 1]_vars

\* C17 as stated: in every state, the default value of every Dictionary
\* node of the schema, and with them the Store's defaultValue, are what
\* they were at construction.
C17_DefaultsKept ==
    \A s \in DOMAIN stores :
        cfg.type # NoType
        => \A node \in DOMAIN stores[s].heap :
              DeepEqual(Deref(stores[s].heap, Ref(node)),
                        GetTypeByPath(cfg.type, node).type.defaultValue)

\* The source of the load was absent, or its validation failed (and, the
\* load not having returned false, was repaired).
AbsentOrRepaired == Source(last'.arg) = Null \/ last'.failing # <<>>

\* A load of a present source that validates starts no timer and writes
\* nothing.
ValidLoadIsQuiet(s) ==
    ( /\ IsText(Source(last'.arg))
      /\ JSONParse(Source(last'.arg)).ok
      /\ cfg.type # NoType => Validate(cfg.type, JSONParse(Source(last'.arg)).v).valid )
    => /\ ~last'.requested /\ ~last'.wrote
       /\ medium' = medium
       /\ stores'[s].pending = stores[s].pending
       /\ stores'[s].saveTimer = stores[s].saveTimer

C19_BaselineIsMedium ==
    [][\A s \in DOMAIN stores :
          (Did(s, {"load", "save", "timeout"}) /\ last'.result = "true")
          => /\ stores'[s].oldSource = medium'
             /\ last'.op \in {"save", "timeout"}
                => medium' = JSONStringify(Deref(stores'[s].heap, stores'[s].value))]_vars

\* C20 as stated: inferType(v) of an example value returns a Type, which
\* validates v and has a defaultValue deep-equal to v; for an array it is a
\* List over a Union of the types inferred from the elements; and the
\* constructor of a Store given only such a defaultValue comes through.
C20_InferType ==
    (built # Null /\ last.op = "infer")
    => /\ built.ok
       /\ Validate(built.type, last.value).valid
       /\ DeepEqual(built.type.defaultValue, last.value)
       /\ IsArray(last.value)
          => /\ built.type.tag = "List"
             /\ built.type.type.tag = "Union"
             /\ Len(built.type.type.types) = last.value.len
             /\ \A i \in 1..last.value.len :
                   built.type.type.types[i] = InferType(last.value.at[IndexKeys[i]]).type
       /\ StoreFields([defaultValue |-> last.value]).ok

\* type.validate(get()).valid for Store s.
ValueIsValid(s) == Validate(cfg.type, Deref(stores[s].heap, stores[s].value)).valid

\* C21 as stated: for a Store with a schema, once one of its loads has
\* returned true, the schema validates the whole in-memory value in every
\* state, whatever loads, sets and resets follow.
C21_SchemaInvariant ==
    \A s \in DOMAIN stores :
        (cfg.type # NoType /\ s \in loaded) => ValueIsValid(s)

\* C22: with secure enabled, once a save of a Store has found a conflict,
\* and until a load of that Store returns true or another agent makes the
\* medium hold the Store's baseline again, the medium differs from the
\* baseline, every save of that Store (called directly, by a timer, or by a
\* set when saves are synchronous) finds the conflict again and writes
\* nothing and starts no timer, and no operation of the Store other than a
\* load ends the conflict.
C22_ConflictsAreSticky ==
    [][\A s \in DOMAIN stores :
          (cfg.secure /\ conflicted[s] > 0)
          => /\ medium # stores[s].oldSource
             /\ Did(s, {"save", "timeout"})
                => /\ FoundConflict(last')
                   /\ last'.result \in {"false", "throw"}
                   /\ ~last'.wrote
                   /\ medium' = medium
                   /\ stores'[s].oldSource = stores[s].oldSource
                   /\ stores'[s].pending \subseteq stores[s].pending
                   /\ conflicted'[s] = conflicted[s] + 1
             /\ Did(s, {"set", "reset"})
                => /\ ~last'.wrote
                   /\ medium' = medium
                   /\ stores'[s].oldSource = stores[s].oldSource
                   /\ (last'.requested /\ cfg.delay = 0) => FoundConflict(last')
                   /\ conflicted'[s] >= conflicted[s]]_vars

\* Another agent has removed the item; a second set in a row has run a
\* synchronous save that found the conflict and told the notifier.
C22_Witness ==
    /\ cfg # Null /\ cfg.secure /\ cfg.onConflict /\ cfg.delay = 0
    /\ medium = Null
    /\ last.op = "set"
    /\ last.requested
    /\ Len(last.conflict) = 1
    /\ conflicted[last.s] >= 2
    /\ medium # stores[last.s].oldSource
====
